---- MODULE Spec2Model ----
(***************************************************************************)
(* Model of nichiki/markitdown-rag-sample: the document pipeline           *)
(* (core/document_processor.py), the vector store (db/vector_store.py)     *)
(* and the RAG orchestrator (core/rag.py).                                 *)
(*                                                                         *)
(* Every Python function is an operator that returns what the call         *)
(* returns or raises, together with the persistent state it leaves and    *)
(* the trace of calls it made to its collaborators.  The collaborators    *)
(* that are not part of the repository (MarkItDown, the file system, the  *)
(* text splitter, OpenAI embeddings, Chroma, ChatOpenAI) are the          *)
(* environment: each call of an operation draws their behaviour for that  *)
(* call from a small set.                                                  *)
(*                                                                         *)
(* Strings of the source that are not ASCII are written as ASCII           *)
(* stand-ins; the definition that introduces each names the original.     *)
(* A text is a sequence of blocks (paragraphs), a file name the sequence  *)
(* of its dot-separated components, a progress fraction its tenths.       *)
(***************************************************************************)
EXTENDS Integers, Sequences, FiniteSets, TLC

VARIABLES
    files,      \* the processed directory: artifact name -> text
    index,      \* the persisted Chroma collection: sequence of stored chunks
    uuids,      \* number of uuid4 values drawn so far
    clients,    \* the lazy slots _embedding_model, _db (VectorStore), _llm (RAG)
    session,    \* st.session_state: processing_file, current_file, progress, status
    last        \* the last completed call: operation, arguments, result, trace

vars == <<files, index, uuids, clients, session, last>>

(***************************************************************************)
(* Bounds of the model.                                                    *)
(***************************************************************************)
MaxBlocks == 2      \* longest text, in blocks
MaxUuids  == 3      \* add_document is not started when it would draw more uuid4 values
MaxK      == 2      \* largest k passed to search
MaxUiUuids == 2     \* the UI does not start a file whose chunks would draw more

\* the texts of the model: the first n blocks of one document, n <= MaxBlocks
BlockNames == <<"a", "b", "c", "d">>
Texts == {SubSeq(BlockNames, 1, n) : n \in 0..MaxBlocks}

(***************************************************************************)
(* Python values: results of calls and exceptions.                         *)
(*                                                                         *)
(* An exception is its chain <<e, e.__cause__, e.__cause__.__cause__, ..>>;*)
(* each link has the exception's type and its message str(e), a sequence   *)
(* of parts.                                                               *)
(***************************************************************************)
NoneValue == <<"<None>">>

Return(v) == [kind |-> "return", value |-> v, exc |-> <<>>]
Raised(e) == [kind |-> "raise", value |-> NoneValue, exc |-> e]

\* an exception raised by a collaborator, with no cause
RawError(type, text) == <<[type |-> type, msg |-> <<text>>]>>

TypeOf(e)  == e[1].type
StrOf(e)   == e[1].msg
CauseOf(e) == Tail(e)

\* raise type(f'{prefix}: {e}') from e
RaiseFrom(type, prefix, e) == <<[type |-> type, msg |-> <<prefix>> \o StrOf(e)]>> \o e

\* s occurs in t as a contiguous run of parts
Contains(t, s) ==
    \E i \in 0..(Len(t) - Len(s)) : SubSeq(t, i + 1, i + Len(s)) = s

Event(name, arg) == [ev |-> name, arg |-> arg]

RECURSIVE SelectEvents(_, _)
SelectEvents(tr, name) ==
    IF tr = <<>> THEN <<>>
    ELSE IF tr[1].ev = name
         THEN <<tr[1]>> \o SelectEvents(Tail(tr), name)
         ELSE SelectEvents(Tail(tr), name)

\* the positions of the events called name in the trace tr
Positions(tr, name) == {i \in 1..Len(tr) : tr[i].ev = name}

(***************************************************************************)
(* core/document_processor.py                                              *)
(***************************************************************************)
DocumentProcessingError == "DocumentProcessingError"

ConvertFailedMsg == "convert_failed"   \* 'ファイルの変換に失敗しました'
SaveFailedMsg    == "save_failed"      \* 'マークダウンの保存に失敗しました'

\* the progress fractions, in tenths, and their status messages
ProgressStarted   == 0      \* 0.0
ProgressConverted == 5      \* 0.5
ProgressComplete  == 10     \* 1.0
StatusStarted   == "starting"    \* '処理を開始しています...'
StatusConverted == "converted"   \* 'ファイルを変換しました'
StatusComplete  == "complete"    \* '処理が完了しました'

\* What MarkItDown().convert(file_path) does in one call: it raises, returns
\* None, returns a result whose markdown is None, or returns a result with text.
ConverterOutcomes ==
    {[kind |-> "raise", error |-> RawError(t, "converter"), markdown |-> <<>>] :
        t \in {"UnsupportedFormatException"}}
    \cup {[kind |-> "none_result", error |-> <<>>, markdown |-> <<>>],
          [kind |-> "none_markdown", error |-> <<>>, markdown |-> <<>>]}
    \cup {[kind |-> "result", error |-> <<>>, markdown |-> t] : t \in Texts}

\* str(x) of the markdown attribute
Str(conv) == IF conv.kind = "none_markdown" THEN <<"None">> ELSE conv.markdown

\* convert_file whose message leaves out {e}
convert_file_no_cause_text(conv) ==
    IF conv.kind = "raise"
    THEN Raised(<<[type |-> DocumentProcessingError, msg |-> <<ConvertFailedMsg>>]>>
                \o conv.error)
    ELSE IF conv.kind = "none_result"
         THEN Raised(RaiseFrom(DocumentProcessingError, ConvertFailedMsg,
                               RawError("AttributeError", "markdown")))
         ELSE Return(Str(conv))

\* DocumentProcessor.convert_file(file_path), conv being the converter's
\* behaviour on file_path
convert_file(conv) ==
    IF conv.kind = "raise"
    THEN Raised(RaiseFrom(DocumentProcessingError, ConvertFailedMsg, conv.error))
    ELSE IF conv.kind = "none_result"
         \* result.markdown on None
         THEN Raised(RaiseFrom(DocumentProcessingError, ConvertFailedMsg,
                               RawError("AttributeError", "markdown")))
         ELSE Return(Str(conv))

\* os.path.join(output_dir, f'{filename}.md') within the processed directory
OutputPath(filename) == filename \o <<"md">>

\* What the file system does in one save: nothing goes wrong, or makedirs,
\* open or write raises OSError.
IoOutcomes == {"ok", "makedirs", "open", "write"}

WriteFile(fs, path, text) ==
    [p \in DOMAIN fs \cup {path} |-> IF p = path THEN text ELSE fs[p]]

\* DocumentProcessor.save_markdown(markdown, filename, output_dir) on the
\* directory contents fs: the result and the directory contents it leaves.
\* A write that fails leaves the file that open(.., 'w') created or truncated.
save_markdown(fs, markdown, filename, io) ==
    LET output_path == OutputPath(filename)
    IN  IF io = "makedirs" \/ io = "open"
        THEN [result |-> Raised(RaiseFrom(DocumentProcessingError, SaveFailedMsg,
                                          RawError("OSError", io))),
              files  |-> fs]
        ELSE IF io = "write"
        THEN [result |-> Raised(RaiseFrom(DocumentProcessingError, SaveFailedMsg,
                                          RawError("OSError", io))),
              files  |-> WriteFile(fs, output_path, <<>>)]
        ELSE [result |-> Return(output_path),
              files  |-> WriteFile(fs, output_path, markdown)]

\* open(path, encoding='utf-8').read() on the directory contents fs: text mode
\* turns every '\r\n' and '\r' of the file into '\n'
read(fs, path) ==
    [i \in 1..Len(fs[path]) |->
        IF fs[path][i] \in {"\r\n", "\r"} THEN "\n" ELSE fs[path][i]]

\* What the progress callback does in one call of process_document: there is
\* none (given = FALSE), or it is called and raises on its n-th call
\* (raises = n; 0: it never raises).
CallbackOutcomes ==
    {[given |-> FALSE, raises |-> 0]} \cup {[given |-> TRUE, raises |-> n] : n \in 0..3}

CallbackError == RawError("CallbackError", "callback")

\* one `if progress_callback: progress_callback(fraction, status)`, the n-th
\* of the call: the events it adds, and whether it raised
Progress(cb, n, fraction, status) ==
    [events |-> IF cb.given THEN <<Event("progress", <<fraction, status>>)>> ELSE <<>>,
     raised |-> cb.given /\ cb.raises = n]

\* process_document writing the artifact before it looks at the conversion
process_document_saves_first(fs, file_path, output_filename, cb, conv, io) ==
    LET p1 == Progress(cb, 1, ProgressStarted, StatusStarted)
        c  == convert_file(conv)
        s  == save_markdown(fs, IF c.kind = "return" THEN c.value ELSE <<>>,
                            output_filename, io)
        p2 == Progress(cb, 2, ProgressConverted, StatusConverted)
        p3 == Progress(cb, 3, ProgressComplete, StatusComplete)
        e1 == p1.events
        e2 == e1 \o <<Event("save_markdown", output_filename)>>
        e3 == e2 \o <<Event("convert_file", file_path)>>
        e4 == e3 \o p2.events
        e5 == e4 \o p3.events
    IN  IF p1.raised
        THEN [result |-> Raised(CallbackError), files |-> fs, events |-> e1]
        ELSE IF s.result.kind = "raise"
        THEN [result |-> s.result, files |-> s.files, events |-> e2]
        ELSE IF c.kind = "raise"
        THEN [result |-> c, files |-> s.files, events |-> e3]
        ELSE IF p2.raised
        THEN [result |-> Raised(CallbackError), files |-> s.files, events |-> e4]
        ELSE IF p3.raised
        THEN [result |-> Raised(CallbackError), files |-> s.files, events |-> e5]
        ELSE [result |-> s.result, files |-> s.files, events |-> e5]

\* process_document reporting 0.5 before the conversion
process_document_reports_early(fs, file_path, output_filename, cb, conv, io) ==
    LET p1 == Progress(cb, 1, ProgressStarted, StatusStarted)
        p2 == Progress(cb, 2, ProgressConverted, StatusConverted)
        p3 == Progress(cb, 3, ProgressComplete, StatusComplete)
        c  == convert_file(conv)
        s  == save_markdown(fs, c.value, output_filename, io)
        e1 == p1.events
        e2 == e1 \o p2.events
        e3 == e2 \o <<Event("convert_file", file_path)>>
        e4 == e3 \o p3.events
        e5 == e4 \o <<Event("save_markdown", output_filename)>>
    IN  IF p1.raised
        THEN [result |-> Raised(CallbackError), files |-> fs, events |-> e1]
        ELSE IF p2.raised
        THEN [result |-> Raised(CallbackError), files |-> fs, events |-> e2]
        ELSE IF c.kind = "raise"
        THEN [result |-> c, files |-> fs, events |-> e3]
        ELSE IF p3.raised
        THEN [result |-> Raised(CallbackError), files |-> fs, events |-> e4]
        ELSE [result |-> s.result, files |-> s.files, events |-> e5]

\* process_document reporting 1.0 before the artifact is written
process_document_completes_early(fs, file_path, output_filename, cb, conv, io) ==
    LET p1 == Progress(cb, 1, ProgressStarted, StatusStarted)
        c  == convert_file(conv)
        p2 == Progress(cb, 2, ProgressConverted, StatusConverted)
        p3 == Progress(cb, 3, ProgressComplete, StatusComplete)
        s  == save_markdown(fs, c.value, output_filename, io)
        e1 == p1.events
        e2 == e1 \o <<Event("convert_file", file_path)>>
        e3 == e2 \o p2.events
        e4 == e3 \o p3.events
        e5 == e4 \o <<Event("save_markdown", output_filename)>>
    IN  IF p1.raised
        THEN [result |-> Raised(CallbackError), files |-> fs, events |-> e1]
        ELSE IF c.kind = "raise"
        THEN [result |-> c, files |-> fs, events |-> e2]
        ELSE IF p2.raised
        THEN [result |-> Raised(CallbackError), files |-> fs, events |-> e3]
        ELSE IF p3.raised
        THEN [result |-> Raised(CallbackError), files |-> fs, events |-> e4]
        ELSE [result |-> s.result, files |-> s.files, events |-> e5]

\* process_document catching what the callback raises and raising its own error
process_document_wraps_callback_error(fs, file_path, output_filename, cb, conv, io) ==
    LET p1 == Progress(cb, 1, ProgressStarted, StatusStarted)
        c  == convert_file(conv)
        p2 == Progress(cb, 2, ProgressConverted, StatusConverted)
        s  == save_markdown(fs, c.value, output_filename, io)
        p3 == Progress(cb, 3, ProgressComplete, StatusComplete)
        e1 == p1.events
        e2 == e1 \o <<Event("convert_file", file_path)>>
        e3 == e2 \o p2.events
        e4 == e3 \o <<Event("save_markdown", output_filename)>>
        e5 == e4 \o p3.events
        wrapped == Raised(RaiseFrom(DocumentProcessingError, ConvertFailedMsg,
                                    CallbackError))
    IN  IF p1.raised
        THEN [result |-> wrapped, files |-> fs, events |-> e1]
        ELSE IF c.kind = "raise"
        THEN [result |-> c, files |-> fs, events |-> e2]
        ELSE IF p2.raised
        THEN [result |-> wrapped, files |-> fs, events |-> e3]
        ELSE IF s.result.kind = "raise"
        THEN [result |-> s.result, files |-> s.files, events |-> e4]
        ELSE IF p3.raised
        THEN [result |-> wrapped, files |-> s.files, events |-> e5]
        ELSE [result |-> s.result, files |-> s.files, events |-> e5]

\* DocumentProcessor.process_document(file_path, output_filename, output_dir,
\* progress_callback) on the directory contents fs: the result, the directory
\* contents it leaves, and the trace of the calls it made.
process_document(fs, file_path, output_filename, cb, conv, io) ==
    LET p1 == Progress(cb, 1, ProgressStarted, StatusStarted)
        c  == convert_file(conv)
        p2 == Progress(cb, 2, ProgressConverted, StatusConverted)
        s  == save_markdown(fs, c.value, output_filename, io)
        p3 == Progress(cb, 3, ProgressComplete, StatusComplete)
        e1 == p1.events
        e2 == e1 \o <<Event("convert_file", file_path)>>
        e3 == e2 \o p2.events
        e4 == e3 \o <<Event("save_markdown", output_filename)>>
        e5 == e4 \o p3.events
    IN  IF p1.raised
        THEN [result |-> Raised(CallbackError), files |-> fs, events |-> e1]
        ELSE IF c.kind = "raise"
        THEN [result |-> c, files |-> fs, events |-> e2]
        ELSE IF p2.raised
        THEN [result |-> Raised(CallbackError), files |-> fs, events |-> e3]
        ELSE IF s.result.kind = "raise"
        THEN [result |-> s.result, files |-> s.files, events |-> e4]
        ELSE IF p3.raised
        THEN [result |-> Raised(CallbackError), files |-> s.files, events |-> e5]
        ELSE [result |-> s.result, files |-> s.files, events |-> e5]

\* a stem that keeps the suffix
Stem_keeps_suffix(name) == name

\* Path(file_name).stem
Stem(name) == IF Len(name) > 1 THEN SubSeq(name, 1, Len(name) - 1) ELSE name

\* the exit codes of main: '0: 成功、1: 失敗'
ExitSuccess == 0
ExitFailure == 1

\* What print to stdout does in one run of main: it never raises (0), or its
\* n-th call raises; the first three are the progress callback's, the fourth
\* reports the path written.
PrintOutcomes == 0..4

\* main whose handler of the unexpected exception returns 0
main_unexpected_returns_0(fs, file_path, output_name, pr, conv, io) ==
    LET name == IF output_name # NoneValue THEN output_name ELSE Stem(file_path)
        progress_callback == [given |-> TRUE, raises |-> IF pr <= 3 THEN pr ELSE 0]
        Report(e, events) ==
            IF TypeOf(e) = DocumentProcessingError
            THEN [result |-> Return(ExitFailure),
                  events |-> events \o <<Event("stderr", [prefix |-> "error", exc |-> e])>>]
            ELSE [result |-> Return(ExitSuccess),
                  events |-> events \o <<Event("stderr", [prefix |-> "unexpected_error",
                                                           exc |-> e])>>]
        Exit(r) ==
            IF r.result.kind = "raise"
            THEN [files |-> r.files] @@ Report(r.result.exc, r.events)
            ELSE IF pr = 4
            THEN [files |-> r.files] @@ Report(RawError("OSError", "print"), r.events)
            ELSE [result |-> Return(ExitSuccess), files |-> r.files,
                  events |-> r.events \o <<Event("stdout", r.result.value)>>]
    IN  Exit(process_document(fs, file_path, name, progress_callback, conv, io))

\* main() of the ingest command line: file_path and the --output-name option
\* (None when absent) are the arguments; the result is the exit code, with
\* the directory contents it leaves and the trace of its calls and prints.
main(fs, file_path, output_name, pr, conv, io) ==
    LET name == IF output_name # NoneValue THEN output_name ELSE Stem(file_path)
        progress_callback == [given |-> TRUE, raises |-> IF pr <= 3 THEN pr ELSE 0]
        \* the two except clauses, e being the exception caught
        Report(e, events) ==
            IF TypeOf(e) = DocumentProcessingError
            THEN [result |-> Return(ExitFailure),
                  events |-> events \o <<Event("stderr", [prefix |-> "error", exc |-> e])>>]
            ELSE [result |-> Return(ExitFailure),
                  events |-> events \o <<Event("stderr", [prefix |-> "unexpected_error",
                                                           exc |-> e])>>]
        \* the steps after process_document, r being what it does
        Exit(r) ==
            IF r.result.kind = "raise"
            THEN [files |-> r.files] @@ Report(r.result.exc, r.events)
            ELSE IF pr = 4
            THEN [files |-> r.files] @@ Report(RawError("OSError", "print"), r.events)
            ELSE [result |-> Return(ExitSuccess), files |-> r.files,
                  events |-> r.events \o <<Event("stdout", r.result.value)>>]
    IN  Exit(process_document(fs, file_path, name, progress_callback, conv, io))

(***************************************************************************)
(* db/vector_store.py                                                      *)
(***************************************************************************)
VectorStoreError == "VectorStoreError"

AddFailedMsg    == "add_failed"       \* 'ドキュメントの追加に失敗しました'
SearchFailedMsg == "search_failed"    \* '検索に失敗しました'

\* Where a collaborator of the vector store raises in one call, if anywhere:
\* the splitter, the OpenAIEmbeddings constructor, the Chroma constructor,
\* Chroma.add_texts (embedding included), Chroma's similarity search
\* (embedding of the query included).  "n_results" is Chroma refusing a
\* number of results below 1: search hands it k as it is.
AddFaults    == {"none", "split_text", "OpenAIEmbeddings", "Chroma", "add_texts"}
SearchFaults == {"none", "OpenAIEmbeddings", "Chroma", "similarity_search", "n_results"}

\* the faults that can happen with the slots cl: a constructor is called only
\* while its slot is empty
AddFaultsFor(cl) ==
    {f \in AddFaults : /\ f = "OpenAIEmbeddings" => ~cl.embedding_model /\ ~cl.db
                       /\ f = "Chroma" => ~cl.db}

\* the faults that can happen in a search for k results with the slots cl
SearchFaultsFor(cl, k) ==
    {f \in SearchFaults : /\ f = "n_results" => k < 1
                          /\ f = "OpenAIEmbeddings" => ~cl.embedding_model /\ ~cl.db
                          /\ f = "Chroma" => ~cl.db}

\* VectorStore.split_text(text): MarkdownTextSplitter is opaque; in the model
\* it yields one chunk per block
split_text(text) == [i \in 1..Len(text) |-> <<text[i]>>]

\* str(uuid.uuid4()), n values having been drawn before: draws are distinct
uuid4(n) == n + 1

\* dict d with d[key] = value set
SetKey(d, key, value) ==
    [k \in DOMAIN d \cup {key} |-> IF k = key THEN value ELSE d[k]]

\* VectorStore.embedding_model (property)
embedding_model(cl, fault) ==
    IF cl.embedding_model
    THEN [result |-> Return("embedding_model"), clients |-> cl, events |-> <<>>]
    ELSE IF fault = "OpenAIEmbeddings"
    THEN [result |-> Raised(RawError("OpenAIError", fault)), clients |-> cl,
          events |-> <<Event("OpenAIEmbeddings", "raise")>>]
    ELSE [result |-> Return("embedding_model"),
          clients |-> [cl EXCEPT !.embedding_model = TRUE],
          events |-> <<Event("OpenAIEmbeddings", "new")>>]

\* db constructing a Chroma on every access, whatever the slot holds
db_constructs_every_time(cl, fault) ==
    LET Construct(em) ==
            IF em.result.kind = "raise" THEN em
            ELSE IF fault = "Chroma"
            THEN [result |-> Raised(RawError("ChromaError", fault)),
                  clients |-> em.clients,
                  events |-> em.events \o <<Event("Chroma", "raise")>>]
            ELSE [result |-> Return("db"),
                  clients |-> [em.clients EXCEPT !.db = TRUE],
                  events |-> em.events \o <<Event("Chroma", "new")>>]
    IN  Construct(embedding_model(cl, fault))

\* VectorStore.db (property)
db(cl, fault) ==
    IF cl.db
    THEN [result |-> Return("db"), clients |-> cl, events |-> <<>>]
    ELSE LET Construct(em) ==
                 IF em.result.kind = "raise" THEN em
                 ELSE IF fault = "Chroma"
                 THEN [result |-> Raised(RawError("ChromaError", fault)),
                       clients |-> em.clients,
                       events |-> em.events \o <<Event("Chroma", "raise")>>]
                 ELSE [result |-> Return("db"),
                       clients |-> [em.clients EXCEPT !.db = TRUE],
                       events |-> em.events \o <<Event("Chroma", "new")>>]
         IN  Construct(embedding_model(cl, fault))

\* Chroma.add_texts(texts, metadatas) on the collection idx: one upsert of
\* all the texts under fresh ids
add_texts(idx, texts, metadatas) ==
    idx \o [i \in 1..Len(texts) |-> [page_content |-> texts[i], metadata |-> metadatas[i]]]

\* the loop counting chunk_index from 1
ChunkMetadata_from_one(metadata, n, i) ==
    SetKey(SetKey(metadata, "chunk_id", uuid4(n + i - 1)), "chunk_index", i)

\* the loop deriving chunk_id from the position in the document
ChunkMetadata_positional_id(metadata, n, i) ==
    SetKey(SetKey(metadata, "chunk_id", i), "chunk_index", i - 1)

\* the loop of add_document: metadatas[i] for chunk i (chunk_index i - 1)
ChunkMetadata(metadata, n, i) ==
    SetKey(SetKey(metadata, "chunk_id", uuid4(n + i - 1)), "chunk_index", i - 1)

\* add_document storing the chunks one call at a time, the last call failing
\* when the store fails
add_document_stores_one_by_one(idx, n, cl, markdown_content, metadata, fault) ==
    IF fault = "split_text"
    THEN [result |-> Raised(RaiseFrom(VectorStoreError, AddFailedMsg,
                                      RawError("ValueError", fault))),
          index |-> idx, uuids |-> n, clients |-> cl, events |-> <<>>]
    ELSE
    LET chunks    == split_text(markdown_content)
        metadatas == [i \in 1..Len(chunks) |-> ChunkMetadata(metadata, n, i)]
        drawn     == n + Len(chunks)
        calls     == [i \in 1..Len(chunks) |->
                        Event("add_texts", [texts |-> <<chunks[i]>>,
                                            metadatas |-> <<metadatas[i]>>])]
        stored    == IF chunks = <<>> THEN 0 ELSE Len(chunks) - 1
        Store(d) ==
            IF d.result.kind = "raise"
            THEN [result |-> Raised(RaiseFrom(VectorStoreError, AddFailedMsg,
                                              d.result.exc)),
                  index |-> idx, uuids |-> drawn, clients |-> d.clients,
                  events |-> d.events]
            ELSE IF fault = "add_texts"
            THEN [result |-> Raised(RaiseFrom(VectorStoreError, AddFailedMsg,
                                              RawError("ChromaError", fault))),
                  index |-> add_texts(idx, SubSeq(chunks, 1, stored),
                                      SubSeq(metadatas, 1, stored)),
                  uuids |-> drawn, clients |-> d.clients,
                  events |-> d.events \o calls]
            ELSE [result |-> Return(NoneValue),
                  index |-> add_texts(idx, chunks, metadatas),
                  uuids |-> drawn, clients |-> d.clients,
                  events |-> d.events \o calls]
    IN  Store(db(cl, fault))

\* add_document splitting the text before it enters the try
add_document_splits_outside_try(idx, n, cl, markdown_content, metadata, fault) ==
    IF fault = "split_text"
    THEN [result |-> Raised(RawError("ValueError", fault)),
          index |-> idx, uuids |-> n, clients |-> cl, events |-> <<>>]
    ELSE
    LET chunks    == split_text(markdown_content)
        metadatas == [i \in 1..Len(chunks) |-> ChunkMetadata(metadata, n, i)]
        drawn     == n + Len(chunks)
        call      == Event("add_texts", [texts |-> chunks, metadatas |-> metadatas])
        Store(d) ==
            IF d.result.kind = "raise"
            THEN [result |-> Raised(RaiseFrom(VectorStoreError, AddFailedMsg,
                                              d.result.exc)),
                  index |-> idx, uuids |-> drawn, clients |-> d.clients,
                  events |-> d.events]
            ELSE IF fault = "add_texts"
            THEN [result |-> Raised(RaiseFrom(VectorStoreError, AddFailedMsg,
                                              RawError("ChromaError", fault))),
                  index |-> idx, uuids |-> drawn, clients |-> d.clients,
                  events |-> d.events \o <<call>>]
            ELSE [result |-> Return(NoneValue),
                  index |-> add_texts(idx, chunks, metadatas),
                  uuids |-> drawn, clients |-> d.clients,
                  events |-> d.events \o <<call>>]
    IN  Store(db(cl, fault))

\* VectorStore.add_document(markdown_content, metadata) on the collection idx
\* with n uuid4 values drawn before: the result, the collection, the number
\* of values drawn and the slots it leaves, and the trace of its calls.
add_document(idx, n, cl, markdown_content, metadata, fault) ==
    IF fault = "split_text"
    THEN [result |-> Raised(RaiseFrom(VectorStoreError, AddFailedMsg,
                                      RawError("ValueError", fault))),
          index |-> idx, uuids |-> n, clients |-> cl, events |-> <<>>]
    ELSE
    LET chunks    == split_text(markdown_content)
        metadatas == [i \in 1..Len(chunks) |-> ChunkMetadata(metadata, n, i)]
        drawn     == n + Len(chunks)
        call      == Event("add_texts", [texts |-> chunks, metadatas |-> metadatas])
        \* self.db.add_texts(...), d being what self.db does
        Store(d) ==
            IF d.result.kind = "raise"
            THEN [result |-> Raised(RaiseFrom(VectorStoreError, AddFailedMsg,
                                              d.result.exc)),
                  index |-> idx, uuids |-> drawn, clients |-> d.clients,
                  events |-> d.events]
            ELSE IF fault = "add_texts"
            THEN [result |-> Raised(RaiseFrom(VectorStoreError, AddFailedMsg,
                                              RawError("ChromaError", fault))),
                  index |-> idx, uuids |-> drawn, clients |-> d.clients,
                  events |-> d.events \o <<call>>]
            ELSE [result |-> Return(NoneValue),
                  index |-> add_texts(idx, chunks, metadatas),
                  uuids |-> drawn, clients |-> d.clients,
                  events |-> d.events \o <<call>>]
    IN  Store(db(cl, fault))

\* Chroma's metadata filter: every key of the filter is in the metadata with
\* an equal value
Matches(metadata, filter) ==
    \A key \in DOMAIN filter : key \in DOMAIN metadata /\ metadata[key] = filter[key]

\* the positions of S from the most relevant down; equal scores keep the
\* order of insertion
RECURSIVE Ranked(_, _, _)
Ranked(idx, S, score) ==
    IF S = {} THEN <<>>
    ELSE LET best == CHOOSE i \in S : \A j \in S :
                        \/ score[idx[i].page_content] > score[idx[j].page_content]
                        \/ /\ score[idx[i].page_content] = score[idx[j].page_content]
                           /\ i <= j
         IN  <<best>> \o Ranked(idx, S \ {best}, score)

\* Chroma.similarity_search_with_relevance_scores(query, k[, filter]) on the
\* collection idx, score giving the relevance of each stored text to the
\* query: the k most relevant of the candidates, as (document, score) pairs
similarity_search_with_relevance_scores(idx, k, filter, score) ==
    LET candidates == {i \in 1..Len(idx) : Matches(idx[i].metadata, filter)}
        order      == Ranked(idx, candidates, score)
        kept       == SubSeq(order, 1, IF k < Len(order) THEN k ELSE Len(order))
    IN  [i \in 1..Len(kept) |->
            [doc |-> idx[kept[i]], score |-> score[idx[kept[i]].page_content]]]

\* the loop putting each result in front of the earlier ones
FormatResults_reversed(results) ==
    [i \in 1..Len(results) |->
        [content  |-> results[Len(results) + 1 - i].doc.page_content,
         metadata |-> results[Len(results) + 1 - i].doc.metadata,
         score    |-> results[Len(results) + 1 - i].score]]

\* the loop of VectorStore.search that formats the results
FormatResults(results) ==
    [i \in 1..Len(results) |->
        [content  |-> results[i].doc.page_content,
         metadata |-> results[i].doc.metadata,
         score    |-> results[i].score]]

\* `if filter_metadata:`: None and {} select the call without a filter
NoFilter == <<>>

\* search taking the branch without a filter whatever filter_metadata is
VectorStore_search_ignores_filter(idx, cl, query, k, filter_metadata, fault, score) ==
    LET call == Event("similarity_search_with_relevance_scores",
                      [query |-> query, k |-> k, filter |-> NoFilter])
        results == similarity_search_with_relevance_scores(idx, k, NoFilter, score)
        Search(d) ==
            IF d.result.kind = "raise"
            THEN [result |-> Raised(RaiseFrom(VectorStoreError, SearchFailedMsg,
                                              d.result.exc)),
                  clients |-> d.clients, events |-> d.events]
            ELSE IF fault = "similarity_search"
            THEN [result |-> Raised(RaiseFrom(VectorStoreError, SearchFailedMsg,
                                              RawError("ChromaError", fault))),
                  clients |-> d.clients, events |-> d.events \o <<call>>]
            ELSE IF fault = "n_results" /\ k < 1
            THEN [result |-> Raised(RaiseFrom(VectorStoreError, SearchFailedMsg,
                                              RawError("TypeError", fault))),
                  clients |-> d.clients, events |-> d.events \o <<call>>]
            ELSE [result |-> Return(FormatResults(results)),
                  clients |-> d.clients,
                  events |-> d.events \o <<call, Event("db_results", results)>>]
    IN  Search(db(cl, fault))

\* VectorStore.search(query, k, filter_metadata) on the collection idx: the
\* result, the slots it leaves, and the trace of its calls.
VectorStore_search(idx, cl, query, k, filter_metadata, fault, score) ==
    LET call == Event("similarity_search_with_relevance_scores",
                      [query |-> query, k |-> k, filter |-> filter_metadata])
        results ==
            IF DOMAIN filter_metadata # {}
            THEN similarity_search_with_relevance_scores(idx, k, filter_metadata, score)
            ELSE similarity_search_with_relevance_scores(idx, k, NoFilter, score)
        \* self.db.similarity_search_with_relevance_scores(...), d being what
        \* self.db does
        Search(d) ==
            IF d.result.kind = "raise"
            THEN [result |-> Raised(RaiseFrom(VectorStoreError, SearchFailedMsg,
                                              d.result.exc)),
                  clients |-> d.clients, events |-> d.events]
            ELSE IF fault = "similarity_search"
            THEN [result |-> Raised(RaiseFrom(VectorStoreError, SearchFailedMsg,
                                              RawError("ChromaError", fault))),
                  clients |-> d.clients, events |-> d.events \o <<call>>]
            ELSE IF fault = "n_results" /\ k < 1
            THEN [result |-> Raised(RaiseFrom(VectorStoreError, SearchFailedMsg,
                                              RawError("TypeError", fault))),
                  clients |-> d.clients, events |-> d.events \o <<call>>]
            ELSE [result |-> Return(FormatResults(results)),
                  clients |-> d.clients,
                  events |-> d.events \o <<call, Event("db_results", results)>>]
    IN  Search(db(cl, fault))

(***************************************************************************)
(* core/rag.py                                                             *)
(***************************************************************************)
RAGError == "RAGError"

SearchErrorMsg     == "rag_search_failed"       \* '検索に失敗しました'
UnexpectedErrorMsg == "unexpected_search_error" \* '予期しない検索エラー'
GenerateFailedMsg  == "generate_failed"         \* '回答生成に失敗しました'
QueryFailedMsg     == "rag_failed"              \* 'RAG処理に失敗しました'

\* '関連する情報が見つかりませんでした。'
NoInformationAnswer == <<"no_relevant_information_found">>

\* Where a collaborator of the orchestrator raises in one call, if anywhere:
\* the ChatOpenAI constructor or llm.invoke, or a fault of the search.
GenerateFaults == {"none", "ChatOpenAI", "invoke"}
QueryFaults    == SearchFaults \cup GenerateFaults

\* the faults that can happen in generate with the slots cl
GenerateFaultsFor(cl) == {f \in GenerateFaults : f = "ChatOpenAI" => ~cl.llm}

\* the faults that can happen in a query for k results with the slots cl
QueryFaultsFor(cl, k) == SearchFaultsFor(cl, k) \cup GenerateFaultsFor(cl)

\* SearchResult(**result)
SearchResult(result) ==
    [content |-> result.content, metadata |-> result.metadata, score |-> result.score]

\* RAG.llm (property)
llm(cl, fault) ==
    IF cl.llm
    THEN [result |-> Return("llm"), clients |-> cl, events |-> <<>>]
    ELSE IF fault = "ChatOpenAI"
    THEN [result |-> Raised(RawError("OpenAIError", fault)), clients |-> cl,
          events |-> <<Event("ChatOpenAI", "raise")>>]
    ELSE [result |-> Return("llm"), clients |-> [cl EXCEPT !.llm = TRUE],
          events |-> <<Event("ChatOpenAI", "new")>>]

\* RAG.search(query, k, filter_metadata)
RAG_search(idx, cl, query, k, filter_metadata, fault, score) ==
    LET Convert(r) ==
            IF r.result.kind = "raise"
            THEN [result |-> Raised(RaiseFrom(RAGError,
                                              IF TypeOf(r.result.exc) = VectorStoreError
                                              THEN SearchErrorMsg ELSE UnexpectedErrorMsg,
                                              r.result.exc)),
                  clients |-> r.clients, events |-> r.events]
            ELSE [result |-> Return([i \in 1..Len(r.result.value) |->
                                        SearchResult(r.result.value[i])]),
                  clients |-> r.clients, events |-> r.events]
    IN  Convert(VectorStore_search(idx, cl, query, k, filter_metadata, fault, score))

\* '\n\n'.join(context)
RECURSIVE Join(_)
Join(context) ==
    IF context = <<>> THEN <<>>
    ELSE IF Len(context) = 1 THEN context[1]
    ELSE context[1] \o <<"\n\n">> \o Join(Tail(context))

\* the f-string of generate without {combined_context}
SystemPrompt_without_context(combined_context) == <<"instructions">> \o <<"\n">>

\* the f-string of generate: the instructions, the context, a newline
SystemPrompt(combined_context) == <<"instructions">> \o combined_context \o <<"\n">>

\* RAG.generate(query, context), response being the content of the message
\* the model answers with
generate(cl, query, context, fault, response) ==
    LET combined_context == Join(context)
        messages == <<[role |-> "system", content |-> SystemPrompt(combined_context)],
                      [role |-> "user", content |-> query]>>
        \* self.llm.invoke(messages), l being what self.llm does
        Invoke(l) ==
            IF l.result.kind = "raise"
            THEN [result |-> Raised(RaiseFrom(RAGError, GenerateFailedMsg, l.result.exc)),
                  clients |-> l.clients, events |-> l.events]
            ELSE IF fault = "invoke"
            THEN [result |-> Raised(RaiseFrom(RAGError, GenerateFailedMsg,
                                              RawError("APIError", fault))),
                  clients |-> l.clients,
                  events |-> l.events \o <<Event("invoke", messages)>>]
            ELSE [result |-> Return(response),
                  clients |-> l.clients,
                  events |-> l.events \o <<Event("invoke", messages),
                                           Event("response", response)>>]
    IN  Invoke(llm(cl, fault))

RAGResponse(answer, sources) == [answer |-> answer, sources |-> sources]

\* query without the test for an empty result
query_generates_always(idx, cl, q, k, filter_metadata, fault, score, response) ==
    LET \* the steps after self.search, s being what it does
        Answer(s) ==
            IF s.result.kind = "raise"
            THEN [result |-> Raised(RaiseFrom(RAGError, QueryFailedMsg, s.result.exc)),
                  clients |-> s.clients, events |-> s.events]
            ELSE
            LET search_results == s.result.value
                found == s.events \o <<Event("search_results", search_results)>>
                context == [i \in 1..Len(search_results) |-> search_results[i].content]
                asked == found \o <<Event("generate", [query |-> q, context |-> context])>>
                \* the steps after self.generate, g being what it does
                Respond(g) ==
                    IF g.result.kind = "raise"
                    THEN [result |-> Raised(RaiseFrom(RAGError, QueryFailedMsg, g.result.exc)),
                          clients |-> g.clients, events |-> asked \o g.events]
                    ELSE [result |-> Return(RAGResponse(g.result.value, search_results)),
                          clients |-> g.clients, events |-> asked \o g.events]
            IN  IF FALSE
                THEN [result |-> Return(RAGResponse(NoInformationAnswer, <<>>)),
                      clients |-> s.clients, events |-> found]
                ELSE Respond(generate(s.clients, q, context, fault, response))
    IN  Answer(RAG_search(idx, cl, q, k, filter_metadata, fault, score))

\* query calling the vector store itself, outside any try
query_unguarded(idx, cl, q, k, filter_metadata, fault, score, response) ==
    LET \* the steps after self.search, s being what it does
        Answer(s) ==
            IF s.result.kind = "raise"
            THEN [result |-> s.result,
                  clients |-> s.clients, events |-> s.events]
            ELSE
            LET search_results == [i \in 1..Len(s.result.value) |-> SearchResult(s.result.value[i])]
                found == s.events \o <<Event("search_results", search_results)>>
                context == [i \in 1..Len(search_results) |-> search_results[i].content]
                asked == found \o <<Event("generate", [query |-> q, context |-> context])>>
                \* the steps after self.generate, g being what it does
                Respond(g) ==
                    IF g.result.kind = "raise"
                    THEN [result |-> g.result,
                          clients |-> g.clients, events |-> asked \o g.events]
                    ELSE [result |-> Return(RAGResponse(g.result.value, search_results)),
                          clients |-> g.clients, events |-> asked \o g.events]
            IN  IF search_results = <<>>
                THEN [result |-> Return(RAGResponse(NoInformationAnswer, <<>>)),
                      clients |-> s.clients, events |-> found]
                ELSE Respond(generate(s.clients, q, context, fault, response))
    IN  Answer(VectorStore_search(idx, cl, q, k, filter_metadata, fault, score))

\* query handing the passages to generate in reverse order
query_reversed_context(idx, cl, q, k, filter_metadata, fault, score, response) ==
    LET \* the steps after self.search, s being what it does
        Answer(s) ==
            IF s.result.kind = "raise"
            THEN [result |-> Raised(RaiseFrom(RAGError, QueryFailedMsg, s.result.exc)),
                  clients |-> s.clients, events |-> s.events]
            ELSE
            LET search_results == s.result.value
                found == s.events \o <<Event("search_results", search_results)>>
                context == [i \in 1..Len(search_results) |-> search_results[Len(search_results) + 1 - i].content]
                asked == found \o <<Event("generate", [query |-> q, context |-> context])>>
                \* the steps after self.generate, g being what it does
                Respond(g) ==
                    IF g.result.kind = "raise"
                    THEN [result |-> Raised(RaiseFrom(RAGError, QueryFailedMsg, g.result.exc)),
                          clients |-> g.clients, events |-> asked \o g.events]
                    ELSE [result |-> Return(RAGResponse(g.result.value, search_results)),
                          clients |-> g.clients, events |-> asked \o g.events]
            IN  IF search_results = <<>>
                THEN [result |-> Return(RAGResponse(NoInformationAnswer, <<>>)),
                      clients |-> s.clients, events |-> found]
                ELSE Respond(generate(s.clients, q, context, fault, response))
    IN  Answer(RAG_search(idx, cl, q, k, filter_metadata, fault, score))

\* RAG.query(query, k, filter_metadata) on the collection idx: the result, the
\* slots it leaves, and the trace of its calls.
query(idx, cl, q, k, filter_metadata, fault, score, response) ==
    LET \* the steps after self.search, s being what it does
        Answer(s) ==
            IF s.result.kind = "raise"
            THEN [result |-> Raised(RaiseFrom(RAGError, QueryFailedMsg, s.result.exc)),
                  clients |-> s.clients, events |-> s.events]
            ELSE
            LET search_results == s.result.value
                found == s.events \o <<Event("search_results", search_results)>>
                context == [i \in 1..Len(search_results) |-> search_results[i].content]
                asked == found \o <<Event("generate", [query |-> q, context |-> context])>>
                \* the steps after self.generate, g being what it does
                Respond(g) ==
                    IF g.result.kind = "raise"
                    THEN [result |-> Raised(RaiseFrom(RAGError, QueryFailedMsg, g.result.exc)),
                          clients |-> g.clients, events |-> asked \o g.events]
                    ELSE [result |-> Return(RAGResponse(g.result.value, search_results)),
                          clients |-> g.clients, events |-> asked \o g.events]
            IN  IF search_results = <<>>
                THEN [result |-> Return(RAGResponse(NoInformationAnswer, <<>>)),
                      clients |-> s.clients, events |-> found]
                ELSE Respond(generate(s.clients, q, context, fault, response))
    IN  Answer(RAG_search(idx, cl, q, k, filter_metadata, fault, score))

(***************************************************************************)
(* app.py                                                                  *)
(***************************************************************************)
\* progress_callback of process_file: the session after the progress calls
\* in the trace events
Shown(sess, events) ==
    LET calls == SelectEvents(events, "progress")
    IN  IF calls = <<>> THEN sess
        ELSE [sess EXCEPT !.progress = calls[Len(calls)].arg[1],
                          !.status   = calls[Len(calls)].arg[2]]

\* process_file whose metadata names the uploaded file, not the artifact
process_file_source_is_upload(fs, idx, n, cl, sess, file_path, conv, io, fault) ==
    LET output_name == Stem(file_path)
        progress_callback == [given |-> TRUE, raises |-> 0]
        Added(r, content, metadata, a) ==
            [result   |-> IF a.result.kind = "raise"
                          THEN Return(NoneValue) ELSE Return(r.result.value),
             files    |-> r.files,
             index    |-> a.index,
             uuids    |-> a.uuids,
             clients  |-> a.clients,
             session  |-> Shown(sess, r.events),
             events   |-> r.events \o <<Event("read", r.result.value),
                                        Event("add_document",
                                              [markdown_content |-> content,
                                               metadata |-> metadata])>>
                          \o a.events
                          \o (IF a.result.kind = "raise"
                              THEN <<Event("st.error", a.result.exc)>> ELSE <<>>)]
        Read(r, content, metadata) ==
            Added(r, content, metadata, add_document(idx, n, cl, content, metadata, fault))
        Processed(r) ==
            IF r.result.kind = "raise"
            THEN [result   |-> Return(NoneValue),
                  files    |-> r.files,
                  index    |-> idx,
                  uuids    |-> n,
                  clients  |-> cl,
                  session  |-> Shown(sess, r.events),
                  events   |-> r.events \o <<Event("st.error", r.result.exc)>>]
            ELSE Read(r, read(r.files, r.result.value), [source |-> file_path])
    IN  Processed(process_document(fs, file_path, output_name, progress_callback,
                                   conv, io))

\* process_file(file_path) on the directory contents fs, the collection idx
\* and the session sess: the path returned (None after st.error), the state
\* it leaves, and the trace of its calls.
process_file(fs, idx, n, cl, sess, file_path, conv, io, fault) ==
    LET output_name == Stem(file_path)
        progress_callback == [given |-> TRUE, raises |-> 0]
        \* the steps after add_document(content, metadata), a being what it does
        Added(r, content, metadata, a) ==
            [result   |-> IF a.result.kind = "raise"
                          THEN Return(NoneValue) ELSE Return(r.result.value),
             files    |-> r.files,
             index    |-> a.index,
             uuids    |-> a.uuids,
             clients  |-> a.clients,
             session  |-> Shown(sess, r.events),
             events   |-> r.events \o <<Event("read", r.result.value),
                                        Event("add_document",
                                              [markdown_content |-> content,
                                               metadata |-> metadata])>>
                          \o a.events
                          \o (IF a.result.kind = "raise"
                              THEN <<Event("st.error", a.result.exc)>> ELSE <<>>)]
        \* the steps after f.read(), content being what it returns
        Read(r, content, metadata) ==
            Added(r, content, metadata, add_document(idx, n, cl, content, metadata, fault))
        \* the steps after process_document, r being what it does
        Processed(r) ==
            IF r.result.kind = "raise"
            THEN [result   |-> Return(NoneValue),
                  files    |-> r.files,
                  index    |-> idx,
                  uuids    |-> n,
                  clients  |-> cl,
                  session  |-> Shown(sess, r.events),
                  events   |-> r.events \o <<Event("st.error", r.result.exc)>>]
            ELSE Read(r, read(r.files, r.result.value),
                      [source |-> output_name \o <<"md">>])
    IN  Processed(process_document(fs, file_path, output_name, progress_callback,
                                   conv, io))

(***************************************************************************)
(* The callers' inputs.                                                    *)
(***************************************************************************)
FilePaths == {<<"report", "pdf">>, <<"report", "docx">>, <<"notes", "txt">>}

OutputNames == {Stem(p) : p \in FilePaths}

\* the --output-name option of the command line: absent, or a name
OutputNameOptions == {NoneValue, <<"summary">>}

(***************************************************************************)
(* State machine.                                                          *)
(***************************************************************************)
NoClients == [embedding_model |-> FALSE, db |-> FALSE, llm |-> FALSE]

\* st.session_state as init_session_state leaves it in a new session
InitialSession ==
    [processing_file |-> FALSE, current_file |-> NoneValue, progress |-> 0, status |-> ""]

Init ==
    /\ files = <<>>
    /\ index = <<>>
    /\ uuids = 0
    /\ clients = NoClients
    /\ session = InitialSession
    /\ last = [op |-> "init", arg |-> <<>>, result |-> Return(NoneValue), events |-> <<>>]

ConvertFile ==
    \E file_path \in FilePaths, conv \in ConverterOutcomes :
        /\ last' = [op |-> "convert_file",
                    arg |-> [file_path |-> file_path],
                    result |-> convert_file(conv),
                    events |-> <<>>]
        /\ UNCHANGED <<files, index, uuids, clients, session>>

\* the texts handed to save_markdown: those of the model, and one whose line
\* ending is '\r\n'
Markdowns == Texts \cup {<<"a", "\r\n">>}

SaveMarkdown ==
    \E markdown \in Markdowns, filename \in OutputNames, io \in IoOutcomes :
        \E r \in {save_markdown(files, markdown, filename, io)} :
            /\ files' = r.files
            /\ last' = [op |-> "save_markdown",
                        arg |-> [markdown |-> markdown, filename |-> filename],
                        result |-> r.result,
                        events |-> <<>>]
            /\ UNCHANGED <<index, uuids, clients, session>>

ProcessDocument ==
    \E file_path \in FilePaths, output_filename \in OutputNames,
       cb \in CallbackOutcomes, conv \in ConverterOutcomes, io \in IoOutcomes :
        \E r \in {process_document(files, file_path, output_filename, cb, conv, io)} :
            /\ output_filename = Stem(file_path)
            /\ files' = r.files
            /\ last' = [op |-> "process_document",
                        arg |-> [file_path |-> file_path,
                                 output_filename |-> output_filename,
                                 callback |-> cb.given,
                                 raises |-> cb.raises],
                        result |-> r.result,
                        events |-> r.events]
            /\ UNCHANGED <<index, uuids, clients, session>>

\* an artifact is read back, as the UI does to index or to show it
ReadMarkdown ==
    \E path \in DOMAIN files :
        /\ last' = [op |-> "read",
                    arg |-> [path |-> path],
                    result |-> Return(read(files, path)),
                    events |-> <<>>]
        /\ UNCHANGED <<files, index, uuids, clients, session>>

NextDP == ConvertFile \/ SaveMarkdown \/ ProcessDocument \/ ReadMarkdown

SpecDP == Init /\ [][NextDP]_vars

Main ==
    \E file_path \in FilePaths, output_name \in OutputNameOptions,
       pr \in PrintOutcomes, conv \in ConverterOutcomes, io \in IoOutcomes :
        \E r \in {main(files, file_path, output_name, pr, conv, io)} :
            /\ files' = r.files
            /\ last' = [op |-> "main",
                        arg |-> [file_path |-> file_path, output_name |-> output_name],
                        result |-> r.result,
                        events |-> r.events]
            /\ UNCHANGED <<index, uuids, clients, session>>

NextCLI == Main

SpecCLI == Init /\ [][NextCLI]_vars

\* the caller's metadata of add_document; the last sets a key add_document sets
Metadatas ==
    {[source |-> <<"report", "md">>],
     [source |-> <<"notes", "md">>, chunk_index |-> 7]}

Filters == {NoFilter, [source |-> <<"report", "md">>]}

Queries == {<<"question">>}

\* the relevance scores of the model, in tenths; Chroma's relevance
\* function can yield a score below 0
Scores == {-1, 6}

\* the texts stored in the collection
StoredTexts == {index[i].page_content : i \in 1..Len(index)}

\* What the embeddings make of one query: the relevance of each stored text.
\* A call that fails before the search returns uses none of them.
ScoreFunctions(fault) ==
    IF fault \in GenerateFaults
    THEN [StoredTexts -> Scores]
    ELSE {[t \in StoredTexts |-> 0]}

\* the same for a search for k results: one for no result ranks nothing
ScoreFunctionsFor(k, fault) ==
    IF k < 1 THEN {[t \in StoredTexts |-> 0]} ELSE ScoreFunctions(fault)

Responses == {<<"answer">>}

AddDocument ==
    \E markdown_content \in Texts, metadata \in Metadatas,
       fault \in AddFaultsFor(clients) :
        \E r \in {add_document(index, uuids, clients, markdown_content, metadata, fault)} :
            /\ uuids + Len(markdown_content) <= MaxUuids
            /\ index' = r.index
            /\ uuids' = r.uuids
            /\ clients' = r.clients
            /\ last' = [op |-> "add_document",
                        arg |-> [markdown_content |-> markdown_content,
                                 metadata |-> metadata],
                        result |-> r.result,
                        events |-> r.events]
            /\ UNCHANGED <<files, session>>

VectorStoreSearch ==
    \E q \in Queries, k \in 0..MaxK, filter_metadata \in Filters :
      \E fault \in SearchFaultsFor(clients, k) :
        \E score \in ScoreFunctionsFor(k, fault) :
            \E r \in {VectorStore_search(index, clients, q, k, filter_metadata, fault, score)} :
                /\ clients' = r.clients
                /\ last' = [op |-> "VectorStore.search",
                            arg |-> [query |-> q, k |-> k,
                                     filter_metadata |-> filter_metadata],
                            result |-> r.result,
                            events |-> r.events]
                /\ UNCHANGED <<files, index, uuids, session>>

NextVS == AddDocument \/ VectorStoreSearch

SpecVS == Init /\ [][NextVS]_vars

RagSearch ==
    \E q \in Queries, k \in 0..MaxK, filter_metadata \in Filters :
      \E fault \in SearchFaultsFor(clients, k) :
        \E score \in ScoreFunctionsFor(k, fault) :
            \E r \in {RAG_search(index, clients, q, k, filter_metadata, fault, score)} :
                /\ clients' = r.clients
                /\ last' = [op |-> "RAG.search",
                            arg |-> [query |-> q, k |-> k,
                                     filter_metadata |-> filter_metadata],
                            result |-> r.result,
                            events |-> r.events]
                /\ UNCHANGED <<files, index, uuids, session>>

Generate ==
    \E q \in Queries, context \in {<<>>, <<<<"a">>>>, <<<<"b">>, <<"a">>>>},
       fault \in GenerateFaultsFor(clients), response \in Responses :
        \E r \in {generate(clients, q, context, fault, response)} :
            /\ clients' = r.clients
            /\ last' = [op |-> "generate",
                        arg |-> [query |-> q, context |-> context],
                        result |-> r.result,
                        events |-> r.events]
            /\ UNCHANGED <<files, index, uuids, session>>

\* a query that keeps the question in the collection
Query_indexes_the_question ==
    \E q \in Queries, k \in 0..MaxK, filter_metadata \in Filters,
       response \in Responses :
      \E fault \in QueryFaultsFor(clients, k) :
        \E score \in ScoreFunctionsFor(k, fault) :
            \E r \in {query(index, clients, q, k, filter_metadata, fault, score, response)} :
                /\ clients' = r.clients
                /\ index' = add_texts(index, <<q>>, <<[source |-> <<"query">>]>>)
                /\ last' = [op |-> "query",
                            arg |-> [query |-> q, k |-> k,
                                     filter_metadata |-> filter_metadata],
                            result |-> r.result,
                            events |-> r.events]
                /\ UNCHANGED <<files, uuids, session>>

Query ==
    \E q \in Queries, k \in 0..MaxK, filter_metadata \in Filters,
       response \in Responses :
      \E fault \in QueryFaultsFor(clients, k) :
        \E score \in ScoreFunctionsFor(k, fault) :
            \E r \in {query(index, clients, q, k, filter_metadata, fault, score, response)} :
                /\ clients' = r.clients
                /\ last' = [op |-> "query",
                            arg |-> [query |-> q, k |-> k,
                                     filter_metadata |-> filter_metadata],
                            result |-> r.result,
                            events |-> r.events]
                /\ UNCHANGED <<files, index, uuids, session>>

NextRAG == AddDocument \/ RagSearch \/ Generate \/ Query

SpecRAG == Init /\ [][NextRAG]_vars

\* a session started on the directories an earlier session left: report.md
\* is in the processed directory and its chunk is in the collection; the
\* clients and the session state are new
InitRestarted ==
    /\ files = WriteFile(<<>>, <<"report", "md">>, <<"a">>)
    /\ index = add_document(<<>>, 0, NoClients, <<"a">>,
                            [source |-> <<"report", "md">>], "none").index
    /\ uuids = 1
    /\ clients = NoClients
    /\ session = InitialSession
    /\ last = [op |-> "init", arg |-> <<>>, result |-> Return(NoneValue), events |-> <<>>]

NextReads == AddDocument \/ VectorStoreSearch \/ RagSearch \/ Generate \/ Query

SpecReads == InitRestarted /\ [][NextReads]_vars

\* upload_file with the button pressed: the file is marked for processing and
\* the script is run again
UploadFile ==
    \E file_path \in FilePaths :
        /\ session' = [session EXCEPT !.processing_file = TRUE,
                                      !.current_file = file_path]
        /\ last' = [op |-> "upload_file",
                    arg |-> [file_path |-> file_path],
                    result |-> Return(NoneValue),
                    events |-> <<>>]
        /\ UNCHANGED <<files, index, uuids, clients>>

\* a run of main of app.py with a file marked for processing: process_file,
\* then the flags are reset
AppMain ==
    /\ session.processing_file
    /\ session.current_file # NoneValue
    /\ \E conv \in ConverterOutcomes, io \in IoOutcomes,
          fault \in AddFaultsFor(clients) :
        \E r \in {process_file(files, index, uuids, clients, session,
                                session.current_file, conv, io, fault)} :
            /\ r.uuids <= MaxUiUuids
            /\ files' = r.files
            /\ index' = r.index
            /\ uuids' = r.uuids
            /\ clients' = r.clients
            /\ session' = [r.session EXCEPT !.processing_file = FALSE,
                                            !.current_file = NoneValue]
            /\ last' = [op |-> "process_file",
                        arg |-> [file_path |-> session.current_file],
                        result |-> r.result,
                        events |-> r.events]

NextApp == UploadFile \/ AppMain

SpecApp == Init /\ [][NextApp]_vars

\* every operation of the modules
Next == NextDP \/ NextCLI \/ NextVS \/ NextRAG \/ NextApp

Spec == Init /\ [][Next]_vars

(***************************************************************************)
(* Properties.                                                             *)
(***************************************************************************)
\* the arguments of the events called name in the trace of the last call
Args(name) ==
    LET evs == SelectEvents(last.events, name)
    IN  [i \in 1..Len(evs) |-> evs[i].arg]

Called(name) == Positions(last.events, name) # {}

\* the trace of the last call consists of the events expected, in order
TraceIs(expected) ==
    /\ Len(last.events) = Len(expected)
    /\ \A i \in 1..Len(expected) :
          /\ last.events[i].ev = expected[i].ev
          /\ last.events[i].arg = expected[i].arg

Returned == last.result.kind = "return"
Raises   == last.result.kind = "raise"

\* the search of the last query returned the empty list
SearchFoundNothing ==
    /\ last.op = "query"
    /\ Called("search_results")
    /\ Args("search_results")[1] = <<>>

\* C1: a query whose search returns the empty list returns the fixed
\* no-information answer with no sources, and neither creates the language
\* model client nor invokes the model.
C1_EmptySearchAnswersWithoutModel ==
    SearchFoundNothing =>
        /\ Returned
        /\ last.result.value.answer = NoInformationAnswer
        /\ last.result.value.sources = <<>>
        /\ ~Called("generate")
        /\ ~Called("ChatOpenAI")
        /\ ~Called("invoke")

\* a query with k > 0 on a collection that holds chunks, none of which
\* matches the filter
C1_Witness ==
    /\ SearchFoundNothing
    /\ Returned
    /\ index # <<>>
    /\ last.arg.k > 0
    /\ ~clients.llm

\* the last query got a non-empty list from the store and returned
QueryAnswered ==
    /\ last.op = "query"
    /\ Returned
    /\ Called("db_results")
    /\ Args("db_results")[1] # <<>>

\* C2: a query whose search returns a non-empty list R and whose generation
\* succeeds hands generate the contents of R in R's order, returns the
\* model's response as the answer, and returns R as the sources: same
\* length and order, same content, metadata and score.
C2_QueryReturnsAnswerAndSources ==
    QueryAnswered =>
        LET R == Args("db_results")[1]
            sources == last.result.value.sources
        IN  /\ Len(Args("generate")) = 1
            /\ Args("generate")[1].context = [i \in 1..Len(R) |-> R[i].doc.page_content]
            /\ Len(Args("response")) = 1
            /\ last.result.value.answer = Args("response")[1]
            /\ Len(sources) = Len(R)
            /\ \A i \in 1..Len(R) :
                /\ sources[i].content = R[i].doc.page_content
                /\ sources[i].metadata = R[i].doc.metadata
                /\ sources[i].score = R[i].score

\* a query answered from two passages of different content and score
C2_Witness ==
    /\ QueryAnswered
    /\ Len(last.result.value.sources) = 2
    /\ last.result.value.sources[1].content # last.result.value.sources[2].content
    /\ last.result.value.sources[1].score > last.result.value.sources[2].score

\* C3: query returns a RAGResponse or raises RAGError, whatever the vector
\* store or the language model raises.
C3_QueryRaisesOnlyRAGError ==
    last.op = "query" =>
        \/ Returned /\ DOMAIN last.result.value = {"answer", "sources"}
        \/ Raises /\ TypeOf(last.result.exc) = RAGError

\* a query during which the vector store raised VectorStoreError
C3_Witness ==
    /\ last.op = "query"
    /\ Raises
    /\ \E i \in 1..Len(last.result.exc) : last.result.exc[i].type = VectorStoreError

\* the progress calls of the last call: <<fraction, status>> each
ProgressCalls == Args("progress")

ProcessedWithCallback == last.op = "process_document" /\ last.arg.callback

\* the last call failed in the conversion / in writing the artifact
ConversionFailed ==
    /\ last.op = "process_document"
    /\ Raises
    /\ Called("convert_file")
    /\ ~Called("save_markdown")
    /\ TypeOf(last.result.exc) # TypeOf(CallbackError)

WriteFailed ==
    /\ last.op = "process_document"
    /\ Raises
    /\ Called("save_markdown")
    /\ TypeOf(last.result.exc) # TypeOf(CallbackError)

\* C4: a successful process_document with a callback calls it exactly three
\* times: 0.0 before the conversion, 0.5 after the conversion and before the
\* artifact is written, 1.0 after it is written; the fractions increase
\* strictly.
C4_ThreeProgressCallsInOrder ==
    (ProcessedWithCallback /\ Returned) =>
        /\ TraceIs(<< Event("progress", <<ProgressStarted, StatusStarted>>),
                      Event("convert_file", last.arg.file_path),
                      Event("progress", <<ProgressConverted, StatusConverted>>),
                      Event("save_markdown", last.arg.output_filename),
                      Event("progress", <<ProgressComplete, StatusComplete>>) >>)
        /\ \A i, j \in 1..Len(ProgressCalls) :
              i < j => ProgressCalls[i][1] < ProgressCalls[j][1]
        /\ last.result.value \in DOMAIN files

C4_Witness ==
    /\ ProcessedWithCallback
    /\ Returned
    /\ Len(ProgressCalls) = 3

\* C5: a failing process_document does not call the callback past the point
\* of failure: only (0.0) when the conversion fails, (0.0) then (0.5) when
\* writing fails, and never 1.0 when it raises DocumentProcessingError.
C5_NoProgressPastFailure ==
    ProcessedWithCallback =>
        /\ ConversionFailed =>
              ProgressCalls = << <<ProgressStarted, StatusStarted>> >>
        /\ WriteFailed =>
              ProgressCalls = << <<ProgressStarted, StatusStarted>>,
                                 <<ProgressConverted, StatusConverted>> >>
        /\ (Raises /\ TypeOf(last.result.exc) = DocumentProcessingError) =>
              \A i \in 1..Len(ProgressCalls) : ProgressCalls[i][1] # ProgressComplete

\* writing the artifact failed after two progress calls
C5_Witness ==
    /\ ProcessedWithCallback
    /\ WriteFailed
    /\ Len(ProgressCalls) = 2

\* C6: when the conversion fails, process_document raises
\* DocumentProcessingError, does not call save_markdown, and leaves every
\* artifact as it was.
C6_FailedConversionPersistsNothing ==
    [][ (last'.op = "process_document" /\ last'.result.kind = "raise"
            /\ last'.result.exc[1].msg[1] = ConvertFailedMsg)
        => /\ TypeOf(last'.result.exc) = DocumentProcessingError
           /\ Positions(last'.events, "save_markdown") = {}
           /\ files' = files ]_vars

\* the conversion failed while an artifact of the same output name existed
C6_Witness ==
    /\ ConversionFailed
    /\ OutputPath(last.arg.output_filename) \in DOMAIN files
    /\ files[OutputPath(last.arg.output_filename)] # <<>>

\* C7: convert_file and save_markdown raise only DocumentProcessingError,
\* with the message of the cause in its message, and process_document
\* raises that exception as it is.
C7_FailuresAreDocumentProcessingErrors ==
    (last.op \in {"convert_file", "save_markdown", "process_document"} /\ Raises
        /\ TypeOf(last.result.exc) # TypeOf(CallbackError)) =>
        /\ TypeOf(last.result.exc) = DocumentProcessingError
        /\ Len(last.result.exc) = 2
        /\ TypeOf(CauseOf(last.result.exc)) # DocumentProcessingError
        /\ Contains(StrOf(last.result.exc), StrOf(CauseOf(last.result.exc)))

\* process_document failed because the converter raised
C7_Witness ==
    /\ ConversionFailed
    /\ TypeOf(CauseOf(last.result.exc)) = "UnsupportedFormatException"
    /\ StrOf(last.result.exc) = <<ConvertFailedMsg, "converter">>

\* the last add_document reached the store
Submitted == last.op = "add_document" /\ Called("add_texts")

\* C8: add_document hands the store the N chunks of the content and N
\* metadata records; record i is the caller's metadata with chunk_index
\* i (from 0) and a chunk_id, and the N chunk_id values differ.
C8_ChunkMetadata ==
    Submitted =>
        LET call   == Args("add_texts")[1]
            chunks == split_text(last.arg.markdown_content)
            given  == last.arg.metadata
        IN  /\ Len(Args("add_texts")) = 1
            /\ call.texts = chunks
            /\ Len(call.metadatas) = Len(chunks)
            /\ \A i \in 1..Len(chunks) :
                /\ DOMAIN call.metadatas[i] = DOMAIN given \cup {"chunk_id", "chunk_index"}
                /\ call.metadatas[i].chunk_index = i - 1
                /\ \A key \in DOMAIN given \ {"chunk_id", "chunk_index"} :
                      call.metadatas[i][key] = given[key]
            /\ \A i, j \in 1..Len(chunks) :
                  i # j => call.metadatas[i].chunk_id # call.metadatas[j].chunk_id

\* a document of two chunks reached the store
C8_Witness ==
    /\ Submitted
    /\ Returned
    /\ Len(Args("add_texts")[1].texts) = 2

DistinctChunkIds ==
    \A i, j \in 1..Len(index) :
        i # j => index[i].metadata.chunk_id # index[j].metadata.chunk_id

\* C9: the chunk_id values of the index are distinct, add_document removes
\* and replaces no stored chunk, and each successful add_document adds all
\* its chunks: ingesting a document again doubles its chunks.
C9_IndexOnlyGrows ==
    /\ []DistinctChunkIds
    /\ [][ /\ Len(index') >= Len(index)
           /\ SubSeq(index', 1, Len(index)) = index
           /\ (last'.op = "add_document" /\ last'.result.kind = "return")
                => Len(index') = Len(index) + Len(split_text(last'.arg.markdown_content))
         ]_vars

\* the same one-chunk document ingested twice under the same source: two
\* chunks of that source and content
C9_Witness ==
    /\ last.op = "add_document"
    /\ Returned
    /\ Len(split_text(last.arg.markdown_content)) = 1
    /\ Cardinality({i \in 1..Len(index) :
            /\ index[i].metadata.source = last.arg.metadata.source
            /\ index[i].page_content = split_text(last.arg.markdown_content)[1]}) = 2

Min(a, b) == IF a < b THEN a ELSE b

\* C10: VectorStore.search(query, k) returns min(k, number of stored chunks
\* matching the filter) results, in descending order of score.
C10_SearchReturnsTopK ==
    (last.op = "VectorStore.search" /\ Returned) =>
        LET results  == last.result.value
            matching == {i \in 1..Len(index) :
                            Matches(index[i].metadata, last.arg.filter_metadata)}
        IN  /\ Len(results) = Min(last.arg.k, Cardinality(matching))
            /\ \A i, j \in 1..Len(results) :
                  i < j => results[i].score >= results[j].score

\* k = 2 against three stored chunks: two results, the better first
C10_Witness ==
    /\ last.op = "VectorStore.search"
    /\ Returned
    /\ Len(index) = 3
    /\ last.arg.k = 2
    /\ Len(last.result.value) = 2
    /\ last.result.value[1].score > last.result.value[2].score

\* the last search had nothing to find: no stored chunk matches the filter,
\* or no result was asked for
NothingToFind ==
    /\ last.op = "VectorStore.search"
    /\ \/ last.arg.k = 0
       \/ \A i \in 1..Len(index) : ~Matches(index[i].metadata, last.arg.filter_metadata)

\* the last call failed because a service (OpenAI, the Chroma store) failed
ServiceFailed ==
    /\ Raises
    /\ TypeOf(CauseOf(last.result.exc)) \in {"OpenAIError", "ChromaError"}

\* C11: a search with nothing to find (an empty index, a filter no stored
\* chunk matches, or k = 0) during which no service fails returns the empty
\* list and raises nothing.
C11_EmptyMatchIsNotAnError ==
    (NothingToFind /\ ~ServiceFailed) =>
        /\ Returned
        /\ last.result.value = <<>>

\* the last call was a search with a filter that returned
FilteredSearchReturned ==
    /\ last.op = "VectorStore.search"
    /\ Returned
    /\ DOMAIN last.arg.filter_metadata # {}

\* C12: a search with a non-empty filter F hands F to the store, and every
\* result it returns is a stored chunk whose metadata has every key of F with
\* the value F gives it.
C12_FilterRestrictsResults ==
    FilteredSearchReturned =>
        LET F == last.arg.filter_metadata
            results == last.result.value
        IN  /\ Args("similarity_search_with_relevance_scores")[1].filter = F
            /\ \A i \in 1..Len(results) :
                  /\ Matches(results[i].metadata, F)
                  /\ \E j \in 1..Len(index) :
                        /\ index[j].page_content = results[i].content
                        /\ index[j].metadata = results[i].metadata

\* a filtered search for two results returned one, while the index holds a
\* chunk of the same content (as similar to the query) under another source
C12_Witness ==
    /\ FilteredSearchReturned
    /\ last.arg.k = 2
    /\ Len(last.result.value) = 1
    /\ \E j \in 1..Len(index) :
          /\ index[j].page_content = last.result.value[1].content
          /\ ~Matches(index[j].metadata, last.arg.filter_metadata)

\* the scores the last RAG.search or query returned
ReturnedScores ==
    IF last.op = "RAG.search" /\ Returned
    THEN {last.result.value[i].score : i \in 1..Len(last.result.value)}
    ELSE IF last.op = "query" /\ Returned
    THEN {last.result.value.sources[i].score : i \in 1..Len(last.result.value.sources)}
    ELSE {}

\* C13: every SearchResult that RAG.search returns and every source of a
\* RAGResponse has a score from 0.0 to 1.0 (0 to 10 tenths).
C13_ScoresInUnitRange ==
    \A x \in ReturnedScores : 0 <= x /\ x <= 10

\* the last call was add_document or VectorStore.search and it raised
StoreOperationRaised ==
    /\ last.op \in {"add_document", "VectorStore.search"}
    /\ Raises

\* C14: whatever fails inside add_document or VectorStore.search (chunking,
\* creating the embedding model or the database, embedding, the store), the
\* operation raises VectorStoreError, caused by the failure and with the
\* failure's message in its own.
C14_FailuresAreVectorStoreErrors ==
    StoreOperationRaised =>
        /\ TypeOf(last.result.exc) = VectorStoreError
        /\ Len(last.result.exc) = 2
        /\ TypeOf(CauseOf(last.result.exc)) # VectorStoreError
        /\ Contains(StrOf(last.result.exc), StrOf(CauseOf(last.result.exc)))
        /\ StrOf(last.result.exc)[1] =
              (IF last.op = "add_document" THEN AddFailedMsg ELSE SearchFailedMsg)

\* add_document failed in the store, after the lazy creation of the database
C14_Witness ==
    /\ last.op = "add_document"
    /\ Raises
    /\ Called("Chroma")
    /\ Called("add_texts")
    /\ StrOf(last.result.exc) = <<AddFailedMsg, "add_texts">>
    /\ TypeOf(CauseOf(last.result.exc)) = "ChromaError"

\* C15: add_document makes at most one call of the store, with all the chunks
\* of the content, and an add_document that raises leaves the index as it
\* was before the call.
C15_AddDocumentAllOrNothing ==
    [][ last'.op = "add_document" =>
          LET calls  == SelectEvents(last'.events, "add_texts")
              chunks == split_text(last'.arg.markdown_content)
          IN  /\ Len(calls) <= 1
              /\ \A i \in 1..Len(calls) : calls[i].arg.texts = chunks
              /\ last'.result.kind = "return" =>
                    /\ Len(calls) = 1
                    /\ Len(index') = Len(index) + Len(chunks)
              /\ last'.result.kind = "raise" =>
                    /\ TypeOf(last'.result.exc) = VectorStoreError
                    /\ index' = index
      ]_vars

\* the store failed on a document of two chunks while the index held a chunk
C15_Witness ==
    /\ last.op = "add_document"
    /\ Raises
    /\ Called("add_texts")
    /\ Len(Args("add_texts")[1].texts) = 2
    /\ Len(index) = 1

\* C16: convert_file returns text that is not empty or raises
\* DocumentProcessingError; it returns neither the empty string nor the
\* text that str() makes of a missing (None) markdown.
C16_ConvertReturnsTextOrRaises ==
    last.op = "convert_file" =>
        \/ /\ Returned
           /\ last.result.value # <<>>
           /\ last.result.value # <<"None">>
        \/ /\ Raises
           /\ TypeOf(last.result.exc) = DocumentProcessingError

\* how a run of main ended: the prefix of the message it printed to stderr,
\* or "success" when it printed none
Outcome(events) ==
    IF Positions(events, "stderr") = {} THEN "success"
    ELSE SelectEvents(events, "stderr")[1].arg.prefix

\* C17 as stated: the exit status of main tells success, a
\* DocumentProcessingError and an unexpected failure apart: no run that ends
\* in another of the three outcomes exits with the status of the last run.
C17_ExitStatusDistinguishesOutcomes ==
    last.op = "main" =>
        \A file_path \in FilePaths, output_name \in OutputNameOptions,
           pr \in PrintOutcomes, conv \in ConverterOutcomes, io \in IoOutcomes :
            \A r \in {main(files, file_path, output_name, pr, conv, io)} :
                Outcome(r.events) # Outcome(last.events)
                    => r.result.value # last.result.value

\* C17 as amended: main exits with 0 exactly when nothing was raised and
\* with 1 otherwise; a DocumentProcessingError and an unexpected failure
\* differ in the message printed to stderr, not in the exit status.
C17_ExitStatusIsSuccessOrFailure ==
    last.op = "main" =>
        LET errors == Args("stderr")
        IN  /\ Returned
            /\ last.result.value \in {ExitSuccess, ExitFailure}
            /\ last.result.value = ExitSuccess <=> errors = <<>>
            /\ last.result.value = ExitSuccess =>
                  /\ Len(Args("stdout")) = 1
                  /\ Args("stdout")[1] \in DOMAIN files
            /\ Len(errors) <= 1
            /\ \A i \in 1..Len(errors) :
                  errors[i].prefix = "error"
                      <=> TypeOf(errors[i].exc) = DocumentProcessingError

\* a run of main that ended in an unexpected failure: exit status 1
C17_Witness ==
    /\ last.op = "main"
    /\ last.result.value = ExitFailure
    /\ Outcome(last.events) = "unexpected_error"

\* C18: reading an artifact right after a successful save_markdown yields
\* exactly the text saved, whatever the directory held before, and the save
\* leaves one artifact, {name}.md, for its output name.
C18_ReadAfterWrite ==
    /\ [][ (last.op = "save_markdown" /\ last.result.kind = "return"
            /\ last'.op = "read" /\ last'.arg.path = last.result.value)
           => last'.result.value = last.arg.markdown ]_vars
    /\ [](last.op = "save_markdown" /\ Returned =>
            /\ last.result.value = OutputPath(last.arg.filename)
            /\ Cardinality({p \in DOMAIN files : Stem(p) = last.arg.filename}) = 1)

\* the last run of the UI processed a file and failed: process_file returned
\* None
ProcessingFailed ==
    /\ last.op = "process_file"
    /\ last.result.value = NoneValue

\* C19: after a run of the UI that fails to process a file, in the
\* conversion, the writing of the artifact or the indexing, the session is
\* back in its initial state: processing_file False, current_file None,
\* progress 0.0 and status ''.
C19_SessionResetAfterFailure ==
    ProcessingFailed =>
        /\ session.processing_file = FALSE
        /\ session.current_file = NoneValue
        /\ session.progress = InitialSession.progress
        /\ session.status = InitialSession.status

\* the last call was a query that raised
QueryRaised == last.op = "query" /\ Raises

\* C20: the RAGError that query raises wraps the failure once: its direct
\* cause is the VectorStoreError the store raised, or the exception the
\* model raised, and never another RAGError.
C20_WrappedExactlyOnce ==
    QueryRaised =>
        /\ TypeOf(last.result.exc) = RAGError
        /\ Len(last.result.exc) >= 2
        /\ TypeOf(CauseOf(last.result.exc)) # RAGError
        /\ (\E i \in 1..Len(last.result.exc) : last.result.exc[i].type = VectorStoreError)
              => TypeOf(CauseOf(last.result.exc)) = VectorStoreError

\* the passages of a text in which a blank line separates them
RECURSIVE Passages(_)
Passages(text) ==
    IF \A i \in 1..Len(text) : text[i] # "\n\n" THEN <<text>>
    ELSE LET cut == CHOOSE i \in 1..Len(text) :
                        /\ text[i] = "\n\n"
                        /\ \A j \in 1..(i - 1) : text[j] # "\n\n"
         IN  <<SubSeq(text, 1, cut - 1)>> \o Passages(SubSeq(text, cut + 1, Len(text)))

\* C21: a generate that returns invoked the model once, with two messages:
\* a system message whose text holds the passages of the context in the
\* order received, a blank line between them, and a user message that is
\* the query; it returns the content of the model's response.  A generate
\* that raises raises RAGError.
C21_GenerateSendsTwoMessages ==
    last.op = "generate" =>
        /\ Returned =>
            /\ Len(Args("invoke")) = 1
            /\ LET messages == Args("invoke")[1]
                   system   == messages[1].content
                   body     == SubSeq(system, 2, Len(system) - 1)
               IN  /\ Len(messages) = 2
                   /\ messages[1].role = "system"
                   /\ messages[2].role = "user"
                   /\ messages[2].content = last.arg.query
                   /\ system[1] = "instructions"
                   /\ IF last.arg.context = <<>> THEN body = <<>>
                      ELSE Passages(body) = last.arg.context
            /\ Len(Args("response")) = 1
            /\ last.result.value = Args("response")[1]
        /\ Raises =>
            /\ TypeOf(last.result.exc) = RAGError
            /\ StrOf(last.result.exc)[1] = GenerateFailedMsg
            /\ Len(Args("invoke")) <= 1

\* generate answered from two passages
C21_Witness ==
    /\ last.op = "generate"
    /\ Returned
    /\ Len(last.arg.context) = 2
    /\ last.arg.context[1] # last.arg.context[2]

\* the lazy slots and the constructor that fills each
Constructors ==
    [embedding_model |-> "OpenAIEmbeddings", db |-> "Chroma", llm |-> "ChatOpenAI"]

\* the calls of the constructor of slot in the trace tr that ended as how
\* ("new": an object was made, "raise": the constructor raised)
Constructions(tr, slot, how) ==
    {i \in Positions(tr, Constructors[slot]) : tr[i].arg = how}

\* C22: a new VectorStore and a new RAG hold no client.  In every call, a
\* slot that is filled stays filled and its constructor is not called; a
\* slot that is empty has its constructor called at most once, and is
\* filled exactly when that call makes an object: a constructor that
\* raises leaves the slot empty for the next use.
C22_LazySlotsConstructedOnce ==
    /\ [](last.op = "init" => clients = NoClients)
    /\ [][ \A slot \in DOMAIN Constructors :
            LET made   == Constructions(last'.events, slot, "new")
                failed == Constructions(last'.events, slot, "raise")
            IN  /\ clients[slot] => (clients'[slot] /\ made = {} /\ failed = {})
                /\ Cardinality(made) + Cardinality(failed) <= 1
                /\ clients'[slot] <=> (clients[slot] \/ made # {})
                /\ failed # {} => ~clients'[slot]
         ]_vars

\* a query answered by the model with all three clients reused: no
\* constructor was called
C22_Witness ==
    /\ last.op = "query"
    /\ Returned
    /\ Called("invoke")
    /\ \A slot \in DOMAIN Constructors :
          /\ clients[slot]
          /\ Positions(last.events, Constructors[slot]) = {}

\* the run of the ingest command recorded in l wrote its artifact and took
\* the output name from the file's name
IngestedByStem(l) ==
    /\ l.op = "main"
    /\ l.result.value = ExitSuccess
    /\ l.arg.output_name = NoneValue

\* the artifact the run recorded in l reported
ArtifactOf(l) == SelectEvents(l.events, "stdout")[1].arg

WithoutSuffix(name) == SubSeq(name, 1, Len(name) - 1)

IndexCalls(tr) == Positions(tr, "add_document") \cup Positions(tr, "add_texts")

\* C24: indexing is a separate, later step.  A run of process_file calls
\* add_document at most once, and only after process_document has made all
\* its calls, the last being the report of completion, and the artifact has
\* been read: the content passed is what reading the written artifact
\* gives, the metadata is source = the artifact's file name, and nothing of
\* the index is called before.  When the conversion or the writing fails,
\* add_document is not called and the index is unchanged.
C24_IndexingFollowsTheArtifact ==
    [][ last'.op = "process_file" =>
          LET tr       == last'.events
              artifact == OutputPath(Stem(last'.arg.file_path))
              written  == Positions(tr, "save_markdown")
              added    == Positions(tr, "add_document")
          IN  /\ Cardinality(added) <= 1
              /\ \A i \in added :
                    /\ i = 7
                    /\ \A j \in IndexCalls(tr) : j >= i
                    /\ written = {4}
                    /\ tr[5].ev = "progress"
                    /\ tr[5].arg = <<ProgressComplete, StatusComplete>>
                    /\ tr[i - 1].ev = "read"
                    /\ tr[i - 1].arg = artifact
                    /\ artifact \in DOMAIN files'
                    /\ tr[i].arg.markdown_content = read(files', artifact)
                    /\ tr[i].arg.metadata = [source |-> artifact]
              /\ added = {} =>
                    /\ IndexCalls(tr) = {}
                    /\ index' = index
                    /\ last'.result.value = NoneValue
              /\ (Positions(tr, "st.error") # {} /\ Positions(tr, "read") = {}) =>
                    added = {}
      ]_vars

\* process_file wrote an artifact with text, read it back and indexed it
C24_Witness ==
    /\ last.op = "process_file"
    /\ last.result.value # NoneValue
    /\ Positions(last.events, "add_document") = {7}
    /\ index # <<>>
    /\ files[last.result.value] # <<>>

\* the error the callback of the model raises, written out
TheCallbackError == <<[type |-> "CallbackError", msg |-> <<"callback">>]>>

\* C25: what the progress callback raises is not caught by process_document.
\* A call whose callback raises never returns; unless the conversion or the
\* writing failed before, it raises the callback's own exception, an
\* exception that is not a DocumentProcessingError and has no cause, and the
\* call of the callback that raised is the last call made.  When that call
\* was the one at 0.0 or at 0.5 the directory is as it was before; when it
\* was the one at 1.0 the artifact has been written.
C25_CallbackErrorPropagates ==
    [][ (last'.op = "process_document" /\ last'.arg.raises # 0) =>
          LET tr       == last'.events
              exc      == last'.result.exc
              artifact == OutputPath(last'.arg.output_filename)
              calls    == Positions(tr, "progress")
          IN  /\ last'.result.kind = "raise"
              /\ \A i \in 1..Len(exc) :
                    exc[i].type = "CallbackError" => exc = TheCallbackError
              /\ TypeOf(exc) # DocumentProcessingError =>
                    /\ exc = TheCallbackError
                    /\ Cardinality(calls) = last'.arg.raises
                    /\ Len(tr) \in calls
                    /\ tr[Len(tr)].arg[1] \in {ProgressStarted, ProgressConverted} =>
                          /\ files' = files
                          /\ Positions(tr, "save_markdown") = {}
                    /\ tr[Len(tr)].arg[1] = ProgressComplete =>
                          /\ Positions(tr, "save_markdown") = {Len(tr) - 1}
                          /\ artifact \in DOMAIN files'
              /\ last'.arg.raises = 1 =>
                    /\ exc = TheCallbackError
                    /\ Len(tr) = 1
      ]_vars

\* the callback raised at 1.0: the call ended with the callback's exception
\* and the artifact is in the directory with its text
C25_Witness ==
    /\ last.op = "process_document"
    /\ last.arg.raises = 3
    /\ Raises
    /\ last.result.exc = TheCallbackError
    /\ OutputPath(last.arg.output_filename) \in DOMAIN files
    /\ files[OutputPath(last.arg.output_filename)] # <<>>

\* the chunks of the artifact at path are in the index under its name
Indexed(path) ==
    \A b \in 1..Len(read(files, path)) :
        \E i \in 1..Len(index) :
            /\ index[i].page_content = <<read(files, path)[b]>>
            /\ index[i].metadata.source = path

\* C26: in the UI the progress reaches (1.0, complete) only when the whole
\* ingest succeeded.  After a run of process_file that ended with an error
\* the session's progress is below 1.0 and its status is not the message of
\* completion; after a run that left the progress at 1.0 the chunks of the
\* artifact are in the index.
C26_CompleteOnlyWhenIndexed ==
    last.op = "process_file" =>
        /\ last.result.value = NoneValue =>
              /\ session.progress < ProgressComplete
              /\ session.status # StatusComplete
        /\ session.progress = ProgressComplete =>
              Indexed(OutputPath(Stem(last.arg.file_path)))

ReadOperations == {"VectorStore.search", "RAG.search", "generate", "query"}

\* the calls in the trace tr that write stored data
Writes(tr) == Positions(tr, "add_texts") \cup Positions(tr, "save_markdown")

\* C27: read operations have no effect on stored data.  A call of
\* VectorStore.search, RAG.search, RAG.generate or RAG.query, whether it
\* returns results, the no-information answer or raises, makes no call that
\* writes and leaves the chunks of the index, with their metadata and ids,
\* and the artifacts as they were; a step that changes the index is an
\* add_document that called add_texts, and none of these operations changes
\* an artifact.
C27_ReadsLeaveStoredData ==
    [][ /\ last'.op \in ReadOperations =>
              /\ Writes(last'.events) = {}
              /\ index' = index
              /\ uuids' = uuids
              /\ files' = files
        /\ index' # index =>
              /\ last'.op = "add_document"
              /\ Positions(last'.events, "add_texts") # {}
        /\ last'.op \in ReadOperations \cup {"add_document"} => files' = files
      ]_vars

\* a query answered that there is no relevant information while the index
\* held chunks and the directory an artifact
C27_Witness ==
    /\ last.op = "query"
    /\ Returned
    /\ last.result.value.answer = NoInformationAnswer
    /\ index # <<>>
    /\ \E path \in DOMAIN files : files[path] # <<>>

====
